---- MODULE Spec2Model ----
(***************************************************************************)
(* Model of the MLC-LLM bridge (src/Classes/MLCBridge.cpp): the wrapper    *)
(* class MLCEngineWrapper, its stream callback, and the three extern "C"   *)
(* functions mlc_llm_create_engine, mlc_llm_generate and                   *)
(* mlc_llm_destroy_engine.  The JSON FFI engine (TVM registry, packed      *)
(* functions, stream-back thread) is the environment: its answers are      *)
(* nondeterministic choices.                                               *)
(*                                                                         *)
(* Threads: one host thread (pc) calling the C functions one after the     *)
(* other, and the engine's stream-back thread (cb) running the stream      *)
(* callback.  A C function is split only where it calls into the engine,   *)
(* because that is where the stream-back thread can interleave.            *)
(*                                                                         *)
(* Texts are sequences of one-character strings; positions are 0-based as  *)
(* in std::string.                                                         *)
(***************************************************************************)
EXTENDS Integers, Sequences, FiniteSets, TLC

(* ------------------------------ bounds --------------------------------- *)

\* Calls of mlc_llm_generate in one behaviour.
MaxGenerate == 2
\* Calls of mlc_llm_destroy_engine in one behaviour.
MaxDestroy == 2
\* Stream fragments the engine emits for one accepted request.
MaxFrags == 2
\* Fields in one stream fragment of the extractor's input space.
MaxFields == 2
\* Characters in a prompt of the request builder's input space.
MaxPromptLen == 2
\* Last reading of the wall clock, in milliseconds after the first.
MaxClock == 1
\* Characters the engine may lose from the end of a fragment's text.
MaxCut == 2

(* ------------------------------- texts --------------------------------- *)

QUOTE == "\""
BSLASH == "\\"

\* std::string::npos
npos == -1

\* The literal "\"content\":\"" searched for by processStreamResponse.
kContentKey == <<QUOTE, "c", "o", "n", "t", "e", "n", "t", QUOTE, ":", QUOTE>>

\* Length of "\"content\":\"" as written in the code.
kContentKeyLen == 11

SetMin(S) == CHOOSE x \in S : \A y \in S : x <= y

\* s.compare(i, pat.size(), pat) == 0
MatchAt(s, pat, i) ==
    /\ i + Len(pat) <= Len(s)
    /\ \A k \in 1..Len(pat) : s[i + k] = pat[k]

\* std::string::find(pat, pos): first 0-based position >= pos, or npos.
Find(s, pat, pos) ==
    LET hits == {i \in pos..(Len(s) - Len(pat)) : MatchAt(s, pat, i)}
    IN  IF hits = {} THEN npos ELSE SetMin(hits)

\* std::string::substr(start, n)
Substr(s, start, n) == SubSeq(s, start + 1, start + n)

(* --------------------- request JSON and request id --------------------- *)

\* The raw string literals of lines 128-139, between which generate puts the
\* prompt, max_tokens and temperature.  The blanks and line breaks between
\* the JSON tokens are left out; they lie outside every string.
kRequestHead ==
    <<"{", QUOTE, "m", "e", "s", "s", "a", "g", "e", "s", QUOTE, ":",
      "[", "{", QUOTE, "r", "o", "l", "e", QUOTE, ":", QUOTE, "u", "s",
      "e", "r", QUOTE, ",", QUOTE, "c", "o", "n", "t", "e", "n", "t",
      QUOTE, ":", QUOTE>>

kRequestModel ==
    <<QUOTE, "}", "]", ",", QUOTE, "m", "o", "d", "e", "l", QUOTE, ":",
      QUOTE, "T", "i", "n", "y", "L", "l", "a", "m", "a", "-", "1",
      ".", "1", "B", "-", "M", "L", "C", QUOTE, ",", QUOTE, "m", "a",
      "x", "_", "t", "o", "k", "e", "n", "s", QUOTE, ":">>

kRequestTemperature ==
    <<",", QUOTE, "t", "e", "m", "p", "e", "r", "a", "t", "u", "r",
      "e", QUOTE, ":">>

kRequestTail ==
    <<",", QUOTE, "s", "t", "r", "e", "a", "m", QUOTE, ":", "t", "r",
      "u", "e", "}">>

\* "req_" of line 142.
kRequestIdPrefix == <<"r", "e", "q", "_">>

Digit(d) == <<"0", "1", "2", "3", "4", "5", "6", "7", "8", "9">>[d + 1]

\* std::to_string of a non-negative integer.
RECURSIVE to_string(_)
to_string(n) ==
    IF n < 10 THEN <<Digit(n)>> ELSE to_string(n \div 10) \o <<Digit(n % 10)>>

\* The max_tokens and temperature the host passes: 8 and 0.7f, the latter as
\* std::to_string(float) prints it ("%f").
kMaxTokens == 8
kTemperatureText == <<"0", ".", "7", "0", "0", "0", "0", "0">>

\* Lines 128-139: request_json, the prompt put between the literals as it is.
RequestJson(prompt) ==
    kRequestHead \o prompt \o kRequestModel \o to_string(kMaxTokens)
    \o kRequestTemperature \o kTemperatureText \o kRequestTail

\* Lines 142-143: request_id from the clock reading, in milliseconds.
RequestId(ms) == kRequestIdPrefix \o to_string(ms)

\* The characters of a prompt: ordinary, double quote, backslash.
PromptChars == {"a", QUOTE, BSLASH}

\* Every prompt of at most MaxPromptLen characters, the empty one included.
AllPrompts == UNION {[1..n -> PromptChars] : n \in 0..MaxPromptLen}

\* The prompt of the host in behaviours that do not vary it.
kPrompt == <<"a">>

(* ---------------------------- JSON decoding ---------------------------- *)

\* The characters that may follow a backslash in a JSON string (\uXXXX left
\* out: no text of the model contains it).
JsonEscapes == {QUOTE, BSLASH, "/", "b", "f", "n", "r", "t"}

\* The character an escape \c stands for.
Unescaped(c) ==
    CASE c = "b" -> "<BS>"
      [] c = "f" -> "<FF>"
      [] c = "n" -> "<LF>"
      [] c = "r" -> "<CR>"
      [] c = "t" -> "<TAB>"
      [] OTHER -> c

NoString == [ok |-> FALSE, val |-> <<>>, next |-> npos]

\* A JSON parser reading the string literal whose first character after the
\* opening quote is at 0-based position i: the decoded value and the position
\* after the closing quote, or NoString when the literal does not end or has
\* an escape that JSON does not know.
RECURSIVE ParseString(_, _, _)
ParseString(s, i, acc) ==
    IF i >= Len(s) THEN NoString
    ELSE LET ch == s[i + 1]
         IN  IF ch = QUOTE THEN [ok |-> TRUE, val |-> acc, next |-> i + 1]
             ELSE IF ch = BSLASH
             THEN IF i + 1 < Len(s) /\ s[i + 2] \in JsonEscapes
                  THEN ParseString(s, i + 2, Append(acc, Unescaped(s[i + 2])))
                  ELSE NoString
             ELSE ParseString(s, i + 1, Append(acc, ch))

\* What a JSON parser makes of a request: ok when the text is the ChatRequest
\* document (messages with one user message, model, max_tokens, temperature,
\* stream), and then the decoded messages[0].content.
DecodeRequest(request_json) ==
    LET head == Len(kRequestHead)
        rest == kRequestModel \o to_string(kMaxTokens) \o kRequestTemperature
                \o kTemperatureText \o kRequestTail
        str  == IF Len(request_json) >= head /\ SubSeq(request_json, 1, head) = kRequestHead
                THEN ParseString(request_json, head, <<>>)
                ELSE NoString
    \* str.next, 0-based after the closing quote, is the quote's 1-based index
    IN  IF str.ok /\ SubSeq(request_json, str.next, Len(request_json)) = rest
        THEN [ok |-> TRUE, content |-> str.val]
        ELSE [ok |-> FALSE, content |-> <<>>]

(* ------------------- stream fragments (engine output) ------------------ *)

\* A fragment is what the engine serialises: a sequence of string-valued
\* fields.  key is "content" or "role"; spaced tells whether the serialiser
\* writes a blank after the colon (both forms are valid JSON).
KeyChars(key) ==
    IF key = "content" THEN <<"c", "o", "n", "t", "e", "n", "t">>
                       ELSE <<"r", "o", "l", "e">>

\* The string values the engine may put in a field: empty, plain, two
\* characters, a double quote, a backslash, and the text "content":"x itself.
FieldValues ==
    { <<>>, <<"a">>, <<"b", "c">>, <<"a", QUOTE>>, <<BSLASH, "b">>,
      kContentKey \o <<"x">> }

Fields == [key : {"content", "role"}, spaced : BOOLEAN, val : FieldValues]

\* JSON string escaping of the engine's serialiser: \" and \\.
RECURSIVE JsonEscape(_)
JsonEscape(d) ==
    IF d = <<>> THEN <<>>
    ELSE (IF Head(d) \in {QUOTE, BSLASH} THEN <<BSLASH, Head(d)>> ELSE <<Head(d)>>)
         \o JsonEscape(Tail(d))

RenderField(f) ==
    <<QUOTE>> \o KeyChars(f.key) \o <<QUOTE, ":">>
    \o (IF f.spaced THEN <<" ">> ELSE <<>>)
    \o <<QUOTE>> \o JsonEscape(f.val) \o <<QUOTE>>

RECURSIVE RenderFields(_)
RenderFields(fs) ==
    IF fs = <<>> THEN <<>>
    ELSE IF Len(fs) = 1 THEN RenderField(fs[1])
    ELSE RenderField(fs[1]) \o <<",">> \o RenderFields(Tail(fs))

\* The JSON text of a fragment, as handed to the stream callback (args[0]).
Render(fs) == <<"{">> \o RenderFields(fs) \o <<"}">>

\* The content deltas a fragment carries, in encounter order.
RECURSIVE ContentDeltas(_)
ContentDeltas(fs) ==
    IF fs = <<>> THEN <<>>
    ELSE (IF fs[1].key = "content" /\ fs[1].val # <<>> THEN <<fs[1].val>> ELSE <<>>)
         \o ContentDeltas(Tail(fs))

\* Every fragment of at most MaxFields fields.
AllFragments == UNION {[1..n -> Fields] : n \in 0..MaxFields}

\* The text the stream callback receives for a message of the engine: the
\* JSON text of its fragment, without its last msg.cut characters (0: the
\* whole document; more: the closing brace, then the closing quote, are
\* missing and the text is not JSON).
FragmentText(msg) ==
    LET text == Render(msg.frag)
    IN  IF msg.cut >= Len(text) THEN <<>> ELSE SubSeq(text, 1, Len(text) - msg.cut)

(* ----------------------- processStreamResponse ------------------------- *)

\* ExtractContent with the callback invoked a second time for the content.
ExtractContent_Twice(response_json) ==
    LET content_pos == Find(response_json, kContentKey, 0)
    IN  IF content_pos = npos THEN <<>>
        ELSE LET start == content_pos + kContentKeyLen
                 end   == Find(response_json, <<QUOTE>>, start)
             IN  IF end = npos THEN <<>>
                 ELSE LET content == Substr(response_json, start, end - start)
                      IN  IF content # <<>> THEN <<content, content>> ELSE <<>>

\* ExtractContent without the !content.empty() test of line 109.
ExtractContent_NoEmptyTest(response_json) ==
    LET content_pos == Find(response_json, kContentKey, 0)
    IN  IF content_pos = npos THEN <<>>
        ELSE LET start == content_pos + kContentKeyLen
                 end   == Find(response_json, <<QUOTE>>, start)
             IN  IF end = npos THEN <<>>
                 ELSE << Substr(response_json, start, end - start) >>

\* Lines 103-112: the arguments token_callback_ is invoked with for one
\* response_json (none or one).
ExtractContent(response_json) ==
    LET content_pos == Find(response_json, kContentKey, 0)
    IN  IF content_pos = npos THEN <<>>
        ELSE LET start == content_pos + kContentKeyLen
                 end   == Find(response_json, <<QUOTE>>, start)
             IN  IF end = npos THEN <<>>
                 ELSE LET content == Substr(response_json, start, end - start)
                      IN  IF content # <<>> THEN <<content>> ELSE <<>>

(* ------------------------------- state --------------------------------- *)

VARIABLES
    heap,       \* the MLCEngineWrapper object: "none", "live" or "freed"
    wrapper,    \* its fields (lines 18-27); stale once heap = "freed"
    frees,      \* how many times the object's storage was released after
                \* its handle had been returned
    handle,     \* the pointer the host got from create_engine: "null", "ptr"
    pc,         \* where the host thread is
    calls,      \* the mlc_llm_generate calls so far; the last may be running
    destroys,   \* the arguments of the mlc_llm_destroy_engine calls so far
    registry,   \* Registry::Get finds "mlc.json_ffi.CreateJSONFFIEngine"
    exposes,    \* names for which the engine's GetFunction is non-null
    engine,     \* the engine instance, as far as the bridge can tell
    queue,      \* fragments the engine still has to stream, oldest first
    cb,         \* the stream-back thread: its stream callback in progress
    done,       \* the fragments whose stream callback has run to its end
    engineLog,  \* bound engine methods invoked since the last new, in order
    sinkLog     \* invocations of host callbacks so far, in order

wrapperVars == <<heap, wrapper, frees>>
hostVars    == <<handle, pc, calls, destroys>>
engineVars  == <<registry, exposes, engine, queue, cb, done, engineLog>>
vars        == <<wrapperVars, hostVars, engineVars, sinkLog>>

Methods ==
    {"init_background_engine", "reload", "chat_completion", "run_background_loop",
     "run_background_stream_back_loop", "get_last_error", "exit_background_loop"}

\* An engine exposes every method, or lacks one of these.
MaybeMissing ==
    {"init_background_engine", "chat_completion", "get_last_error", "exit_background_loop"}

EngineVariants == {Methods} \cup {Methods \ {m} : m \in MaybeMissing}

\* The host's callback functions; NullSink is a null function pointer, which
\* makes token_callback_ an empty std::function.
NullSink == "null"
Sinks == {"sinkA", "sinkB"}

\* The object before the constructor body has bound anything (line 30).
BlankWrapper ==
    [ token_callback_                   |-> NullSink,
      is_initialized_                   |-> FALSE,
      json_ffi_engine_                  |-> FALSE,
      init_background_engine_           |-> FALSE,
      reload_                           |-> FALSE,
      chat_completion_                  |-> FALSE,
      run_background_loop_              |-> FALSE,
      run_background_stream_back_loop_  |-> FALSE,
      get_last_error_                   |-> FALSE ]

\* A fresh engine instance: no stream callback registered, not asked to exit.
FreshEngine == [stream_callback |-> FALSE, exit_calls |-> 0, exiting |-> FALSE]

Idle == [busy |-> FALSE]

Init ==
    /\ heap = "none"
    /\ wrapper = BlankWrapper
    /\ frees = 0
    /\ handle = "null"
    /\ pc = "idle"
    /\ calls = <<>>
    /\ destroys = <<>>
    /\ registry \in BOOLEAN
    /\ exposes \in EngineVariants
    /\ engine = FreshEngine
    /\ queue = <<>>
    /\ cb = Idle
    /\ done = <<>>
    /\ engineLog = <<>>
    /\ sinkLog = <<>>

\* A call through a null PackedFunc dereferences a null pointer: the process
\* dies.  Nothing runs afterwards.
Crash ==
    /\ pc' = "crashed"
    /\ UNCHANGED <<handle, calls, destroys>>

\* Invoking an empty std::function (line 110 with token_callback_ empty)
\* throws std::bad_function_call out of the stream callback, on the engine's
\* thread, where nothing catches it.
BadFunctionCall ==
    /\ pc' = "crashed_sink"
    /\ UNCHANGED <<handle, calls, destroys>>

\* The process has died: of a null call or an uncaught exception
\* ("crashed"), of deleting the wrapper a second time ("crashed_delete"), or
\* of invoking an empty token_callback_ ("crashed_sink").
CrashPcs == {"crashed", "crashed_delete", "crashed_sink"}

Crashed == pc \in CrashPcs

Running == ~Crashed

(* ------------------------ mlc_llm_create_engine ------------------------ *)

\* The catch block of the constructor, lines 77-80.
CtorCatch ==
    /\ wrapper' = [wrapper EXCEPT !.is_initialized_ = FALSE]
    /\ pc' = "ctor_done"

\* Lines 172-175 and 30: new MLCEngineWrapper, member initialisers.
CreateEngine_New ==
    /\ pc = "idle"
    /\ heap = "none"
    /\ heap' = "live"
    /\ wrapper' = BlankWrapper
    /\ pc' = "ctor_factory"
    /\ engineLog' = <<>>
    /\ UNCHANGED <<frees, handle, calls, destroys, registry, exposes, engine, queue, cb,
                   done, sinkLog>>

\* Lines 35-48: registry lookup, engine instantiation, GetFunction x 6.
Ctor_Factory ==
    /\ pc = "ctor_factory"
    /\ \/ /\ ~registry
          /\ CtorCatch
          /\ UNCHANGED engine
       \/ /\ registry
          /\ \E ok \in BOOLEAN :
               IF ok
               THEN /\ engine' = FreshEngine
                    /\ wrapper' =
                         [wrapper EXCEPT
                            !.json_ffi_engine_ = TRUE,
                            !.init_background_engine_ = "init_background_engine" \in exposes,
                            !.reload_ = "reload" \in exposes,
                            !.chat_completion_ = "chat_completion" \in exposes,
                            !.run_background_loop_ = "run_background_loop" \in exposes,
                            !.run_background_stream_back_loop_ =
                                "run_background_stream_back_loop" \in exposes,
                            !.get_last_error_ = "get_last_error" \in exposes]
                    /\ pc' = "ctor_init"
               ELSE /\ CtorCatch
                    /\ UNCHANGED engine
    /\ UNCHANGED <<heap, frees, handle, calls, destroys, registry, exposes,
                   queue, cb, done, engineLog, sinkLog>>

\* Lines 50-58: the stream callback closes over this and is handed to
\* init_background_engine_.
Ctor_InitBackgroundEngine ==
    /\ pc = "ctor_init"
    /\ IF ~wrapper.init_background_engine_
       THEN /\ Crash
            /\ UNCHANGED <<wrapper, engine, engineLog>>
       ELSE /\ engineLog' = Append(engineLog, "init_background_engine")
            /\ \E ok \in BOOLEAN :
                 IF ok
                 THEN /\ engine' = [engine EXCEPT !.stream_callback = TRUE]
                      /\ pc' = "ctor_reload"
                      /\ UNCHANGED wrapper
                 ELSE /\ CtorCatch
                      /\ UNCHANGED engine
            /\ UNCHANGED <<handle, calls, destroys>>
    /\ UNCHANGED <<heap, frees, registry, exposes, queue, cb, done, sinkLog>>

\* Lines 60-80: reload_(engine_config), then is_initialized_ = true.
Ctor_Reload ==
    /\ pc = "ctor_reload"
    /\ IF ~wrapper.reload_
       THEN /\ Crash
            /\ UNCHANGED <<wrapper, engineLog>>
       ELSE /\ engineLog' = Append(engineLog, "reload")
            /\ \E ok \in BOOLEAN :
                 IF ok
                 THEN /\ wrapper' = [wrapper EXCEPT !.is_initialized_ = TRUE]
                      /\ pc' = "ctor_done"
                 ELSE CtorCatch
            /\ UNCHANGED <<handle, calls, destroys>>
    /\ UNCHANGED <<heap, frees, registry, exposes, engine, queue, cb, done, sinkLog>>

(* --------------------------- ~MLCEngineWrapper ------------------------- *)

\* Calling the result of GetFunction("exit_background_loop") when it is null.
DtorCrashes(is_initialized) ==
    is_initialized /\ "exit_background_loop" \notin exposes

\* DtorBody without the is_initialized_ test of line 85.
DtorBody_Unguarded(is_initialized) ==
    /\ engineLog' = Append(engineLog, "exit_background_loop")
    /\ \E ok \in BOOLEAN :
         engine' = [engine EXCEPT !.exit_calls = @ + 1, !.exiting = @ \/ ok]

\* DtorBody with the test of line 85 inverted.
DtorBody_Inverted(is_initialized) ==
    IF ~is_initialized
    THEN /\ engineLog' = Append(engineLog, "exit_background_loop")
         /\ \E ok \in BOOLEAN :
              engine' = [engine EXCEPT !.exit_calls = @ + 1, !.exiting = @ \/ ok]
    ELSE UNCHANGED <<engine, engineLog>>

\* Lines 84-92, given the value read from is_initialized_: exit_loop() is
\* called; whatever it throws is swallowed.
DtorBody(is_initialized) ==
    IF is_initialized
    THEN /\ engineLog' = Append(engineLog, "exit_background_loop")
         /\ \E ok \in BOOLEAN :
              engine' = [engine EXCEPT !.exit_calls = @ + 1, !.exiting = @ \/ ok]
    ELSE UNCHANGED <<engine, engineLog>>

\* CreateEngine_Return without the isInitialized() check of lines 176-179.
CreateEngine_Return_Unchecked ==
    /\ pc = "ctor_done"
    /\ handle' = "ptr"
    /\ pc' = "idle"
    /\ UNCHANGED <<wrapperVars, calls, destroys, engineVars, sinkLog>>

\* Lines 176-180: an uninitialised wrapper is deleted and nullptr returned,
\* an initialised one is returned as the handle.
CreateEngine_Return ==
    /\ pc = "ctor_done"
    /\ IF ~wrapper.is_initialized_
       THEN /\ DtorBody(wrapper.is_initialized_)
            /\ heap' = "none"
            /\ wrapper' = BlankWrapper
            /\ handle' = "null"
       ELSE /\ handle' = "ptr"
            /\ UNCHANGED <<heap, wrapper, engine, engineLog>>
    /\ pc' = "idle"
    /\ UNCHANGED <<frees, calls, destroys, registry, exposes, queue, cb,
                   done, sinkLog>>

(* ------------------------ mlc_llm_destroy_engine ----------------------- *)

\* DestroyEngine with the test of line 203 inverted: nothing is deleted.
DestroyEngine_Inverted ==
    /\ pc = "idle"
    /\ Len(destroys) < MaxDestroy
    /\ \E arg \in {"null", handle} : destroys' = Append(destroys, arg)
    /\ UNCHANGED <<wrapperVars, handle, pc, calls, engineVars, sinkLog>>

\* What ~MLCEngineWrapper reads from is_initialized_: the field of a live
\* object, anything from storage that was already released.
ReadInitialized == IF heap = "live" THEN {wrapper.is_initialized_} ELSE BOOLEAN

\* Lines 202-205 and 84-92: the null check, then delete runs the destructor
\* body.  The host passes null or the pointer it holds, which dangles after
\* the first destroy.
DestroyEngine ==
    /\ pc = "idle"
    /\ Len(destroys) < MaxDestroy
    /\ \E arg \in {"null", handle} :
         /\ destroys' = Append(destroys, arg)
         /\ IF arg = "null"
            THEN UNCHANGED <<pc, engine, engineLog>>
            ELSE \E is_initialized \in ReadInitialized :
                   \/ /\ ~DtorCrashes(is_initialized)
                      /\ DtorBody(is_initialized)
                      /\ pc' = "dtor_release"
                   \/ /\ DtorCrashes(is_initialized) \/ heap = "freed"
                      /\ pc' = IF heap = "freed" THEN "crashed_delete" ELSE "crashed"
                      /\ UNCHANGED <<engine, engineLog>>
    /\ UNCHANGED <<wrapperVars, handle, calls, registry, exposes, queue, cb,
                   done, sinkLog>>

\* Line 205, after the destructor body: the members are destroyed and the
\* storage is released.  Releasing it a second time corrupts the heap: the
\* call returns or the process dies.
Destroy_Release ==
    /\ pc = "dtor_release"
    /\ \/ /\ frees' = frees + 1
          /\ heap' = "freed"
          /\ pc' = "idle"
       \/ /\ heap = "freed"
          /\ pc' = "crashed_delete"
          /\ UNCHANGED <<frees, heap>>
    /\ UNCHANGED <<wrapper, handle, calls, destroys, engineVars, sinkLog>>

(* --------------------------- mlc_llm_generate -------------------------- *)

NewCall(arg, prompt_null, callback) ==
    [engine |-> arg, prompt_null |-> prompt_null, sink |-> callback,
     stored |-> FALSE, chat |-> "none", last_error_read |-> FALSE,
     returned |-> FALSE, ret |-> 0,
     prompt |-> <<>>, ms |-> 0, request_json |-> <<>>, request_id |-> <<>>]

\* The running call is the last of calls.
Current == calls[Len(calls)]
SetCurrent(c) == [calls EXCEPT ![Len(calls)] = c]

\* The handles the host may pass to generate: null, or its pointer while the
\* wrapper has not been destroyed (section 4.4: no operation on a destroyed
\* wrapper).
GenerateHandles == {"null"} \cup (IF handle = "ptr" /\ heap = "live" THEN {"ptr"} ELSE {})

\* The latest reading of the wall clock (line 142) so far; the clock does not
\* run backwards.
LastReading ==
    LET S == {calls[r].ms : r \in {q \in 1..Len(calls) : calls[q].stored}}
    IN  IF S = {} THEN 0 ELSE CHOOSE m \in S : \A n \in S : n <= m

\* GenerateCall keeping a callback that is already registered: line 125 as
\* "if (!token_callback_) token_callback_ = callback".
GenerateCall_KeepFirst(inputs) ==
    /\ pc = "idle"
    /\ Len(calls) < MaxGenerate
    /\ \E in \in inputs :
         LET c == NewCall(in.engine, in.prompt_null, in.callback)
             keep == wrapper.token_callback_ # NullSink
         IN  IF in.engine = "null" \/ in.prompt_null \/ ~wrapper.is_initialized_
             THEN /\ calls' = Append(calls, [c EXCEPT !.returned = TRUE, !.ret = -1])
                  /\ UNCHANGED <<pc, wrapper>>
             ELSE /\ wrapper' = IF keep THEN wrapper
                                ELSE [wrapper EXCEPT !.token_callback_ = in.callback]
                  /\ calls' = Append(calls,
                                [c EXCEPT !.stored = ~keep,
                                          !.prompt = in.prompt,
                                          !.ms = in.ms,
                                          !.request_json = RequestJson(in.prompt),
                                          !.request_id = RequestId(in.ms)])
                  /\ pc' = "gen_chat"
    /\ UNCHANGED <<heap, frees, handle, destroys, engineVars, sinkLog>>

\* Lines 187-195 and 116-143, for the arguments and the clock reading of
\* inputs: the null checks, the is_initialized_ check, token_callback_ =
\* callback, the request JSON and the request id.
GenerateCall(inputs) ==
    /\ pc = "idle"
    /\ Len(calls) < MaxGenerate
    /\ \E in \in inputs :
         LET c == NewCall(in.engine, in.prompt_null, in.callback)
         IN  IF in.engine = "null" \/ in.prompt_null
             THEN /\ calls' = Append(calls, [c EXCEPT !.returned = TRUE, !.ret = -1])
                  /\ UNCHANGED <<pc, wrapper>>
             ELSE IF ~wrapper.is_initialized_
             THEN /\ calls' = Append(calls, [c EXCEPT !.returned = TRUE, !.ret = -1])
                  /\ UNCHANGED <<pc, wrapper>>
             ELSE /\ wrapper' = [wrapper EXCEPT !.token_callback_ = in.callback]
                  /\ calls' = Append(calls,
                                [c EXCEPT !.stored = TRUE,
                                          !.prompt = in.prompt,
                                          !.ms = in.ms,
                                          !.request_json = RequestJson(in.prompt),
                                          !.request_id = RequestId(in.ms)])
                  /\ pc' = "gen_chat"
    /\ UNCHANGED <<heap, frees, handle, destroys, engineVars, sinkLog>>

\* The arguments of one call: every callback (null too) with a good handle
\* and prompt, and one call for each argument that fails a null check.  The
\* prompt is kPrompt and the clock has not advanced since the last reading.
GenerateInputs ==
    {[engine |-> h, prompt_null |-> FALSE, prompt |-> kPrompt, callback |-> c,
      ms |-> LastReading] :
        h \in GenerateHandles \ {"null"}, c \in Sinks \cup {NullSink}}
    \cup {[engine |-> h, prompt_null |-> TRUE, prompt |-> <<>>, callback |-> "sinkA",
           ms |-> LastReading] : h \in GenerateHandles}
    \cup {[engine |-> "null", prompt_null |-> FALSE, prompt |-> kPrompt,
           callback |-> "sinkA", ms |-> LastReading]}

\* mlc_llm_generate called by the host.
Generate_Enter == GenerateCall(GenerateInputs)

\* The arguments and clock readings of a call on the handle, with every
\* prompt and every reading from the last one on.
RequestInputs ==
    {[engine |-> "ptr", prompt_null |-> FALSE, prompt |-> p, callback |-> "sinkA",
      ms |-> t] : p \in AllPrompts, t \in LastReading..MaxClock}

\* mlc_llm_generate called with any prompt at any time.
Generate_Request == GenerateCall(RequestInputs)

\* The fragments the engine streams for an accepted request, in order: the
\* contents "a", "bc", "" of the multi-token scenario, repeated.
ScriptFragment(i) ==
    LET vals == << <<"a">>, <<"b", "c">>, <<>> >>
    IN  << [key |-> "content", spaced |-> FALSE, val |-> vals[((i - 1) % 3) + 1]] >>

Script(req, n) ==
    [i \in 1..n |-> [req |-> req, idx |-> i, frag |-> ScriptFragment(i), cut |-> 0]]

\* Generate_ChatCompletion returning -2 on a refusal without reading
\* get_last_error_ (line 151 left out).
Generate_ChatCompletion_NoErrorRead ==
    /\ pc = "gen_chat"
    /\ IF ~wrapper.chat_completion_
       THEN /\ Crash
            /\ UNCHANGED <<queue, engineLog>>
       ELSE /\ engineLog' = Append(engineLog, "chat_completion")
            /\ \/ /\ \E n \in 1..MaxFrags : queue' = queue \o Script(Len(calls), n)
                  /\ calls' = SetCurrent([Current EXCEPT !.chat = "true"])
                  /\ pc' = "gen_ok"
               \/ /\ calls' = SetCurrent([Current EXCEPT !.chat = "false", !.returned = TRUE,
                                                        !.ret = -2])
                  /\ pc' = "idle"
                  /\ UNCHANGED queue
               \/ /\ calls' = SetCurrent([Current EXCEPT !.chat = "throw", !.returned = TRUE,
                                                        !.ret = -2])
                  /\ pc' = "idle"
                  /\ UNCHANGED queue
            /\ UNCHANGED <<handle, destroys>>
    /\ UNCHANGED <<wrapperVars, registry, exposes, engine, cb, done, sinkLog>>

\* Lines 145-149 and 159-161: chat_completion_(request_json, request_id).
\* The engine accepts (and will stream 1..MaxFrags fragments), refuses, or
\* throws.
Generate_ChatCompletion ==
    /\ pc = "gen_chat"
    /\ IF ~wrapper.chat_completion_
       THEN /\ Crash
            /\ UNCHANGED <<queue, engineLog>>
       ELSE /\ engineLog' = Append(engineLog, "chat_completion")
            /\ \/ /\ \E n \in 1..MaxFrags : queue' = queue \o Script(Len(calls), n)
                  /\ calls' = SetCurrent([Current EXCEPT !.chat = "true"])
                  /\ pc' = "gen_ok"
               \/ /\ calls' = SetCurrent([Current EXCEPT !.chat = "false"])
                  /\ pc' = "gen_err"
                  /\ UNCHANGED queue
               \/ /\ calls' = SetCurrent([Current EXCEPT !.chat = "throw", !.returned = TRUE,
                                                    !.ret = -2])
                  /\ pc' = "idle"
                  /\ UNCHANGED queue
            /\ UNCHANGED <<handle, destroys>>
    /\ UNCHANGED <<wrapperVars, registry, exposes, engine, cb, done, sinkLog>>

\* Generate_GetLastError with the wrong code returned at line 153.
Generate_GetLastError_Minus1 ==
    /\ pc = "gen_err"
    /\ IF ~wrapper.get_last_error_
       THEN /\ Crash
            /\ UNCHANGED engineLog
       ELSE /\ engineLog' = Append(engineLog, "get_last_error")
            /\ calls' = SetCurrent([Current EXCEPT !.last_error_read = TRUE,
                                                 !.returned = TRUE, !.ret = -1])
            /\ pc' = "idle"
            /\ UNCHANGED <<handle, destroys>>
    /\ UNCHANGED <<wrapperVars, registry, exposes, engine, queue, cb, done, sinkLog>>

\* Lines 150-154: get_last_error_() is read, -2 is returned (also when the
\* read throws, lines 159-161).
Generate_GetLastError ==
    /\ pc = "gen_err"
    /\ IF ~wrapper.get_last_error_
       THEN /\ Crash
            /\ UNCHANGED engineLog
       ELSE /\ engineLog' = Append(engineLog, "get_last_error")
            /\ calls' = SetCurrent([Current EXCEPT !.last_error_read = TRUE,
                                                 !.returned = TRUE, !.ret = -2])
            /\ pc' = "idle"
            /\ UNCHANGED <<handle, destroys>>
    /\ UNCHANGED <<wrapperVars, registry, exposes, engine, queue, cb, done, sinkLog>>

\* Generate_Return dropping the chat_completion_ binding on its way out.
Generate_Return_Unbinds ==
    /\ pc = "gen_ok"
    /\ calls' = SetCurrent([Current EXCEPT !.returned = TRUE, !.ret = 0])
    /\ pc' = "idle"
    /\ wrapper' = [wrapper EXCEPT !.chat_completion_ = FALSE]
    /\ UNCHANGED <<heap, frees, handle, destroys, engineVars, sinkLog>>

\* Lines 156-157: return 0.
Generate_Return ==
    /\ pc = "gen_ok"
    /\ calls' = SetCurrent([Current EXCEPT !.returned = TRUE, !.ret = 0])
    /\ pc' = "idle"
    /\ UNCHANGED <<wrapperVars, handle, destroys, engineVars, sinkLog>>

(* --------------------------- stream callback --------------------------- *)

\* What the stream callback reads from this->token_callback_: the field of a
\* live object; from storage that was already released, the stale value or
\* an empty std::function.
ReadCallback == IF heap = "live" THEN {wrapper.token_callback_} ELSE {wrapper.token_callback_, NullSink}

\* mlc_llm_destroy_engine has begun on the wrapper (or has finished).
DestroyBegun == pc = "dtor_release" \/ heap = "freed"

\* The last call that stored its callback in token_callback_ (0: none).
LastStored ==
    LET S == {r \in 1..Len(calls) : calls[r].stored}
    IN  IF S = {} THEN 0 ELSE CHOOSE r \in S : \A q \in S : q <= r

\* One invocation of a host callback, with what was true when it happened.
SinkCall(sink, delta, msg) ==
    [ sink      |-> sink,
      delta     |-> delta,
      req       |-> msg.req,
      idx       |-> msg.idx,
      by        |-> LastStored,
      submitted |-> calls[msg.req].chat = "true",
      returned  |-> calls[msg.req].returned,
      destroyed |-> DestroyBegun ]

\* StreamCallback_Enter without the test of line 96.
StreamCallback_Enter_NoEmptyTest ==
    /\ Running
    /\ ~cb.busy
    /\ queue # <<>>
    /\ engine.stream_callback
    /\ ~engine.exiting
    /\ queue' = Tail(queue)
    /\ cb' = [busy |-> TRUE, msg |-> Head(queue)]
    /\ UNCHANGED <<wrapperVars, hostVars, registry, exposes, engine, done, engineLog,
                   sinkLog>>

\* Lines 51-54 and 95-96: the engine's stream-back thread takes its next
\* fragment and enters the callback; processStreamResponse returns at once
\* when token_callback_ is empty.  The engine starts no callback once it has
\* been told to exit.
StreamCallback_Enter ==
    /\ Running
    /\ ~cb.busy
    /\ queue # <<>>
    /\ engine.stream_callback
    /\ ~engine.exiting
    /\ queue' = Tail(queue)
    /\ \E seen \in ReadCallback :
         IF seen = NullSink
         THEN /\ cb' = Idle
              /\ done' = Append(done, Head(queue))
         ELSE /\ cb' = [busy |-> TRUE, msg |-> Head(queue)]
              /\ UNCHANGED done
    /\ UNCHANGED <<wrapperVars, hostVars, registry, exposes, engine, engineLog, sinkLog>>

\* StreamCallback_Process handing the content to the callback of the call
\* that submitted the request instead of token_callback_.
StreamCallback_Process_OwnSink ==
    /\ Running
    /\ cb.busy
    /\ cb' = Idle
    /\ LET out == ExtractContent(FragmentText(cb.msg))
       IN  IF out = <<>>
           THEN UNCHANGED <<sinkLog, hostVars>>
           ELSE LET target == calls[cb.msg.req].sink
                IN  IF target = NullSink
                    THEN /\ BadFunctionCall
                         /\ UNCHANGED sinkLog
                    ELSE /\ sinkLog' = sinkLog \o
                               [i \in 1..Len(out) |-> SinkCall(target, out[i], cb.msg)]
                         /\ UNCHANGED hostVars
    /\ done' = Append(done, cb.msg)
    /\ UNCHANGED <<wrapperVars, registry, exposes, engine, queue, engineLog>>

\* Lines 100-113: the content is cut out of response_json and handed to
\* token_callback_.  Invoking an empty std::function throws
\* std::bad_function_call on the engine's thread.
StreamCallback_Process ==
    /\ Running
    /\ cb.busy
    /\ cb' = Idle
    /\ LET out == ExtractContent(FragmentText(cb.msg))
       IN  IF out = <<>>
           THEN UNCHANGED <<sinkLog, hostVars>>
           ELSE \E target \in ReadCallback :
                  IF target = NullSink
                  THEN /\ BadFunctionCall
                       /\ UNCHANGED sinkLog
                  ELSE /\ sinkLog' = sinkLog \o
                             [i \in 1..Len(out) |-> SinkCall(target, out[i], cb.msg)]
                       /\ UNCHANGED hostVars
    /\ done' = Append(done, cb.msg)
    /\ UNCHANGED <<wrapperVars, registry, exposes, engine, queue, engineLog>>

(* ---------------------------- specification ---------------------------- *)

Next ==
    \/ CreateEngine_New
    \/ Ctor_Factory
    \/ Ctor_InitBackgroundEngine
    \/ Ctor_Reload
    \/ CreateEngine_Return
    \/ Generate_Enter
    \/ Generate_ChatCompletion
    \/ Generate_GetLastError
    \/ Generate_Return
    \/ DestroyEngine
    \/ Destroy_Release
    \/ StreamCallback_Enter
    \/ StreamCallback_Process

Spec == Init /\ [][Next]_vars

(* ------------------- the extractor over every fragment ----------------- *)

\* A wrapper that create_engine has returned, after one generate call that
\* the engine accepted and that has returned 0; the engine is about to stream
\* one fragment, any of AllFragments.
StreamingWrapper(callback) ==
    [BlankWrapper EXCEPT
        !.token_callback_ = callback,
        !.is_initialized_ = TRUE,
        !.json_ffi_engine_ = TRUE,
        !.init_background_engine_ = TRUE,
        !.reload_ = TRUE,
        !.chat_completion_ = TRUE,
        !.run_background_loop_ = TRUE,
        !.run_background_stream_back_loop_ = TRUE,
        !.get_last_error_ = TRUE]

InitStream ==
    /\ heap = "live"
    /\ \E callback \in Sinks \cup {NullSink} :
         /\ wrapper = StreamingWrapper(callback)
         /\ calls = << [NewCall("ptr", FALSE, callback) EXCEPT
                           !.stored = TRUE, !.chat = "true", !.returned = TRUE,
                           !.prompt = kPrompt,
                           !.request_json = RequestJson(kPrompt),
                           !.request_id = RequestId(0)] >>
    /\ frees = 0
    /\ handle = "ptr"
    /\ pc = "idle"
    /\ destroys = <<>>
    /\ registry = TRUE
    /\ exposes = Methods
    /\ engine = [FreshEngine EXCEPT !.stream_callback = TRUE]
    /\ \E f \in AllFragments : queue = << [req |-> 1, idx |-> 1, frag |-> f, cut |-> 0] >>
    /\ cb = Idle
    /\ done = <<>>
    /\ engineLog = <<"init_background_engine", "reload", "chat_completion">>
    /\ sinkLog = <<>>

NextStream ==
    \/ StreamCallback_Enter
    \/ StreamCallback_Process

SpecStream == InitStream /\ [][NextStream]_vars

(* -------------------- the request over every prompt -------------------- *)

\* A wrapper that create_engine has returned, before the first generate call;
\* the host then calls generate with any prompt of AllPrompts, at any reading
\* of the clock.
InitRequest ==
    /\ heap = "live"
    /\ wrapper = StreamingWrapper(NullSink)
    /\ calls = <<>>
    /\ frees = 0
    /\ handle = "ptr"
    /\ pc = "idle"
    /\ destroys = <<>>
    /\ registry = TRUE
    /\ exposes = Methods
    /\ engine = [FreshEngine EXCEPT !.stream_callback = TRUE]
    /\ queue = <<>>
    /\ cb = Idle
    /\ done = <<>>
    /\ engineLog = <<"init_background_engine", "reload">>
    /\ sinkLog = <<>>

NextRequest ==
    \/ Generate_Request
    \/ Generate_ChatCompletion
    \/ Generate_GetLastError
    \/ Generate_Return

SpecRequest == InitRequest /\ [][NextRequest]_vars

(* ------------------------- malformed fragments ------------------------- *)

\* As InitStream, but the engine is about to stream two messages: any
\* fragment whose text has lost its end, then a whole fragment with the
\* content "a".
InitMalformed ==
    /\ heap = "live"
    /\ \E callback \in Sinks \cup {NullSink} :
         /\ wrapper = StreamingWrapper(callback)
         /\ calls = << [NewCall("ptr", FALSE, callback) EXCEPT
                           !.stored = TRUE, !.chat = "true", !.returned = TRUE,
                           !.prompt = kPrompt,
                           !.request_json = RequestJson(kPrompt),
                           !.request_id = RequestId(0)] >>
    /\ frees = 0
    /\ handle = "ptr"
    /\ pc = "idle"
    /\ destroys = <<>>
    /\ registry = TRUE
    /\ exposes = Methods
    /\ engine = [FreshEngine EXCEPT !.stream_callback = TRUE]
    /\ \E f \in AllFragments, c \in 1..MaxCut :
         queue = << [req |-> 1, idx |-> 1, frag |-> f, cut |-> c],
                    [req |-> 1, idx |-> 2, frag |-> ScriptFragment(1), cut |-> 0] >>
    /\ cb = Idle
    /\ done = <<>>
    /\ engineLog = <<"init_background_engine", "reload", "chat_completion">>
    /\ sinkLog = <<>>

SpecMalformed == InitMalformed /\ [][NextStream]_vars

(* -------------------------------- claims ------------------------------- *)

CallIds == 1..Len(calls)

\* C1: every generate call that has returned returned 0, -1 or -2: -1 exactly
\* when a null check or the is_initialized_ check failed, and then
\* chat_completion was not invoked (a null handle or a null prompt always
\* gives -1); -2 when chat_completion returned false or threw; 0 exactly when
\* chat_completion was invoked and returned true.
C1_ReturnCode ==
    \A r \in CallIds :
        LET c == calls[r]
        IN  /\ c.engine = "null" \/ c.prompt_null => ~c.stored
            /\ ~c.stored => c.returned /\ c.ret = -1 /\ c.chat = "none"
            /\ c.returned =>
                 /\ c.ret \in {0, -1, -2}
                 /\ c.ret = -1 <=> ~c.stored
                 /\ c.chat \in {"false", "throw"} => c.ret = -2
                 /\ c.ret = 0 <=> c.chat = "true"

\* Both engine outcomes have been returned: a 0 and a -2 after a refusal.
C1_Witness ==
    \E r, q \in CallIds :
        /\ calls[r].returned /\ calls[r].ret = 0
        /\ calls[q].returned /\ calls[q].ret = -2 /\ calls[q].chat = "false"

CtorPcs == {"ctor_factory", "ctor_init", "ctor_reload", "ctor_done"}

\* C2: create_engine hands out a pointer exactly when the constructor ran to
\* its end (init_background_engine and reload were invoked, the stream
\* callback is registered, is_initialized_ is set); after a failed
\* construction the host holds null and the wrapper is gone; and a generate
\* call on the pointer with a non-null prompt never returns -1.
C2_HandleIffInitialized ==
    /\ handle = "ptr" /\ heap = "live" =>
          /\ wrapper.is_initialized_
          /\ Len(engineLog) >= 2
          /\ SubSeq(engineLog, 1, 2) = <<"init_background_engine", "reload">>
          /\ engine.stream_callback
    /\ handle = "null" /\ pc \notin CtorPcs \cup CrashPcs => heap = "none"
    /\ heap = "live" /\ pc \notin CtorPcs \cup CrashPcs => handle = "ptr"
    /\ \A r \in CallIds :
          calls[r].engine = "ptr" /\ ~calls[r].prompt_null /\ calls[r].returned
              => calls[r].ret # -1

\* A generate call on a returned handle has returned.
C2_Witness ==
    /\ handle = "ptr"
    /\ \E r \in CallIds :
          calls[r].engine = "ptr" /\ ~calls[r].prompt_null /\ calls[r].returned

\* The deltas the host callbacks were invoked with for one fragment, in order.
Delivered(msg) ==
    LET hits == SelectSeq(sinkLog, LAMBDA e : e.req = msg.req /\ e.idx = msg.idx)
    IN  [i \in 1..Len(hits) |-> hits[i].delta]

\* A host callback is registered in token_callback_.
SinkRegistered == wrapper.token_callback_ # NullSink

\* A fragment in the compact serialisation: no blank after a colon.
Compact(fs) == \A k \in 1..Len(fs) : ~fs[k].spaced

\* C3: when the stream callback has run for a fragment while a sink is
\* registered, the sink was invoked exactly k times, k being the number of
\* non-empty content deltas of the fragment (so several times for a fragment
\* with several content keys).  Stated for the compact serialisation, the
\* one the extractor's search pattern is written for.
C3_OneCallPerDelta ==
    \A i \in 1..Len(done) :
        SinkRegistered /\ Compact(done[i].frag)
            => Len(Delivered(done[i])) = Len(ContentDeltas(done[i].frag))

HasContentField(fs) == \E k \in 1..Len(fs) : fs[k].key = "content"

\* C4: when the stream callback has run for a fragment that has no content
\* field, or whose content fields are all the empty string, no sink was
\* invoked for it.
C4_NoDeltaNoCall ==
    \A i \in 1..Len(done) :
        ContentDeltas(done[i].frag) = <<>> => Delivered(done[i]) = <<>>

\* The callback has run, with a sink registered, for a fragment whose content
\* field is empty and for nothing else.
C4_Witness ==
    /\ Len(done) = 1
    /\ SinkRegistered
    /\ HasContentField(done[1].frag)
    /\ ContentDeltas(done[1].frag) = <<>>
    /\ sinkLog = <<>>

SinkCalls == 1..Len(sinkLog)

\* C5: no host callback is invoked once destroy_engine has begun on the
\* wrapper.
C5_NoCallAfterDestroy == \A i \in SinkCalls : ~sinkLog[i].destroyed

\* C6 as claimed: a host callback is invoked for a request only after the
\* generate call that submitted the request has returned.
C6_ReturnBeforeFirstToken == \A i \in SinkCalls : sinkLog[i].returned

\* C6 as amended: a host callback is invoked for a request only after
\* chat_completion has accepted the request, and so after the generate call
\* that submitted it stored its callback: the callback in effect was stored by
\* that call or by a later one.
C6_SubmitBeforeFirstToken ==
    \A i \in SinkCalls :
        /\ sinkLog[i].submitted
        /\ sinkLog[i].by >= sinkLog[i].req

\* A host callback was invoked for a request whose generate call had been
\* accepted and had not returned yet.
C6_Witness ==
    \E i \in SinkCalls :
        /\ sinkLog[i].submitted
        /\ ~sinkLog[i].returned
        /\ sinkLog[i].by = sinkLog[i].req

\* The engine emitted the fragment of e before the fragment of f.
EmittedBefore(e, f) == e.req < f.req \/ (e.req = f.req /\ e.idx < f.idx)

\* C7: the host callbacks are invoked in the order in which the engine
\* emitted the fragments: each invocation is for a later fragment than the one
\* before (no reordering, no duplicate) and carries that fragment's delta.
C7_EmissionOrder ==
    /\ \A i, j \in SinkCalls : i < j => EmittedBefore(sinkLog[i], sinkLog[j])
    /\ \A i \in SinkCalls :
          <<sinkLog[i].delta>> = ContentDeltas(ScriptFragment(sinkLog[i].idx))

\* Deltas of two requests were delivered, three or more in all.
C7_Witness ==
    /\ Len(sinkLog) >= 3
    /\ \E i, j \in SinkCalls : sinkLog[i].req # sinkLog[j].req

\* C8 as claimed: whatever destroy_engine calls are made, the wrapper is
\* released at most once, exit_background_loop is requested at most once,
\* and no call fails to return.
C8_Idempotent ==
    /\ frees <= 1
    /\ engine.exit_calls <= 1
    /\ pc # "crashed_delete"

\* A step that is a call destroy_engine(arg).
DestroyCall(arg) ==
    /\ Len(destroys') = Len(destroys) + 1
    /\ destroys'[Len(destroys')] = arg

\* C8 as amended: destroy_engine(null) changes nothing, before and after
\* destroy_engine(h); the first destroy_engine(h) requests
\* exit_background_loop once and then releases the wrapper once.
C8_NullSafeFirstDestroyOnce ==
    [][ /\ DestroyCall("null") =>
              UNCHANGED <<wrapperVars, handle, pc, calls, engineVars, sinkLog>>
        /\ DestroyCall("ptr") /\ heap = "live" =>
              \/ /\ pc' = "dtor_release"
                 /\ engineLog' = Append(engineLog, "exit_background_loop")
                 /\ engine'.exit_calls = 1
              \/ pc' = "crashed" /\ "exit_background_loop" \notin exposes
        /\ heap = "live" /\ heap' = "freed" =>
              frees' = 1 /\ engine'.exit_calls = 1 /\ pc' = "idle"
      ]_vars

\* destroy_engine(h) and then destroy_engine(null) have both returned.
C8_Witness ==
    /\ destroys = <<"ptr", "null">>
    /\ pc = "idle"
    /\ heap = "freed"
    /\ frees = 1
    /\ engine.exit_calls = 1

\* C9 as claimed: no host callback is invoked that a generate call whose
\* chat_completion returned false had passed.
C9_RejectedSinkSilent ==
    \A i \in SinkCalls : calls[sinkLog[i].by].chat # "false"

\* C9 as amended: a generate call whose chat_completion returned false reads
\* get_last_error and returns -2, and no callback is invoked for a fragment
\* of that request (its callback stays registered, though, and receives the
\* remaining deltas of an earlier accepted request).
C9_RejectedReturnsMinus2 ==
    /\ \A r \in CallIds :
          calls[r].chat = "false" /\ calls[r].returned =>
              calls[r].ret = -2 /\ calls[r].last_error_read
    /\ \A i \in SinkCalls : calls[sinkLog[i].req].chat = "true"

\* The callback of a call that returned -2 after a refusal received a delta
\* of the earlier request.
C9_Witness ==
    \E i \in SinkCalls :
        LET e == sinkLog[i]
        IN  /\ calls[e.by].chat = "false"
            /\ calls[e.by].returned
            /\ calls[e.by].ret = -2
            /\ e.req < e.by
            /\ e.sink = calls[e.by].sink

\* C10 as claimed: a step taken while the wrapper's is_initialized_ is false
\* invokes no bound engine method.
C10_NoEngineCallWhileUninitialized ==
    [][ heap = "live" /\ ~wrapper.is_initialized_ => Len(engineLog') <= Len(engineLog) ]_vars

ConstructionCalls ==
    { <<>>, <<"init_background_engine">>, <<"init_background_engine", "reload">> }

\* C10 as amended: while a wrapper is uninitialised, or was deleted
\* uninitialised, the only bound methods that were invoked are the
\* constructor's own init_background_engine and reload (never chat_completion,
\* get_last_error or exit_background_loop); the host holds no handle, no
\* callback is stored, and every generate call made so far returned -1.
C10_UninitializedIsInert ==
    heap = "none" \/ (heap = "live" /\ ~wrapper.is_initialized_) =>
        /\ engineLog \in ConstructionCalls
        /\ handle = "null"
        /\ wrapper.token_callback_ = NullSink
        /\ \A r \in CallIds :
              calls[r].returned /\ calls[r].ret = -1 /\ calls[r].chat = "none"

\* A construction failed at reload, the wrapper was deleted, and a generate
\* call was made afterwards.
C10_Witness ==
    /\ heap = "none"
    /\ pc = "idle"
    /\ engineLog = <<"init_background_engine", "reload">>
    /\ calls # <<>>

\* The calls whose request reached chat_completion_.
Submitted == {r \in CallIds : calls[r].chat # "none"}

\* C11: the request JSON that generate passed to chat_completion is a
\* well-formed ChatRequest document whose messages[0].content decodes to the
\* prompt of the call, whatever the prompt (empty, with a double quote, with
\* a backslash).
C11_RequestDecodesToPrompt ==
    \A r \in Submitted :
        DecodeRequest(calls[r].request_json) = [ok |-> TRUE, content |-> calls[r].prompt]

\* C16: any two generate calls that reached chat_completion passed different
\* request ids, whatever the clock read (the same millisecond twice included).
C16_DistinctRequestIds ==
    \A r, q \in Submitted : r # q => calls[r].request_id # calls[q].request_id

\* C12: when the stream callback has run, with a sink registered, for a
\* fragment that carries one content delta D and nothing else, the sink was
\* invoked with exactly D (also when D holds a double quote or a backslash,
\* which the fragment carries escaped).
C12_DeliveredEqualsDelta ==
    \A i \in 1..Len(done) :
        LET msg == done[i]
        IN  /\ SinkRegistered
            /\ msg.cut = 0
            /\ Compact(msg.frag)
            /\ Len(msg.frag) = 1
            /\ ContentDeltas(msg.frag) # <<>>
            => Delivered(msg) = ContentDeltas(msg.frag)

\* C13: when the stream callback has run for a message whose text is not
\* JSON, no sink was invoked for it.
C13_MalformedDropped ==
    \A i \in 1..Len(done) : done[i].cut > 0 => Delivered(done[i]) = <<>>

\* The method-table fields that construction binds (lines 43-48).
BoundFields ==
    {"init_background_engine_", "reload_", "chat_completion_", "run_background_loop_",
     "run_background_stream_back_loop_", "get_last_error_"}

\* C14: is_initialized_ is true only if every construction step succeeded:
\* the factory was found and gave an engine, each of the six methods was
\* bound to a non-null callable, and init_background_engine and reload were
\* invoked, in this order, and succeeded.
C14_InitializedOnlyIfAllBound ==
    heap = "live" /\ wrapper.is_initialized_ =>
        /\ registry
        /\ wrapper.json_ffi_engine_
        /\ \A f \in BoundFields : wrapper[f]
        /\ Len(engineLog) >= 2
        /\ SubSeq(engineLog, 1, 2) = <<"init_background_engine", "reload">>
        /\ engine.stream_callback

\* C15: a call destroy_engine(h) on a live wrapper always completes: it
\* requests exit_background_loop once, goes on to release the wrapper
\* whatever exit_background_loop does, and the release returns to the host
\* with the wrapper destroyed.
C15_DestroyCompletes ==
    [][ /\ DestroyCall("ptr") /\ heap = "live" =>
              /\ pc' = "dtor_release"
              /\ heap' = "live"
              /\ engineLog' = Append(engineLog, "exit_background_loop")
        /\ pc = "dtor_release" /\ pc' # "dtor_release" /\ heap = "live" =>
              /\ pc' = "idle"
              /\ heap' = "freed"
              /\ engineLog' = engineLog
      ]_vars

\* A step of a generate call: its entry, or a step out of one of its places.
GenerateStep ==
    \/ Len(calls') # Len(calls)
    \/ pc \in {"gen_chat", "gen_err", "gen_ok"} /\ pc' # pc

\* A step of the stream callback.
StreamStep == cb' # cb

\* C17: once the constructor has bound them, the engine instance and the six
\* method-table fields keep their values in every step for as long as the
\* wrapper lives; a step of generate changes no wrapper field but
\* token_callback_, and a step of the stream callback changes no wrapper
\* field at all.
C17_MethodTableFrame ==
    [][ /\ heap = "live" /\ heap' = "live" /\ wrapper.json_ffi_engine_ =>
              \A f \in BoundFields \cup {"json_ffi_engine_"} : wrapper'[f] = wrapper[f]
        /\ GenerateStep =>
              /\ wrapper' = [wrapper EXCEPT !.token_callback_ = wrapper'.token_callback_]
              /\ heap' = heap
        /\ StreamStep => wrapper' = wrapper /\ heap' = heap
      ]_vars

\* Two generate calls have stored different callbacks, the first has returned
\* 0, and stream callbacks have delivered deltas to both.
C17_Witness ==
    /\ heap = "live"
    /\ Len(calls) = 2
    /\ calls[1].stored /\ calls[2].stored
    /\ calls[1].returned /\ calls[1].ret = 0
    /\ calls[1].sink # calls[2].sink
    /\ wrapper.token_callback_ = calls[2].sink
    /\ \E i, j \in SinkCalls : sinkLog[i].sink # sinkLog[j].sink
    /\ \A f \in BoundFields : wrapper[f]

\* C18: every sink invocation made before destroy_engine has begun invoked
\* the callback argument of the latest generate call that had passed the
\* is_initialized_ check and stored its callback by then, whichever request
\* the fragment belongs to and whatever that call returned.
C18_SinkOfLatestGenerate ==
    \A i \in SinkCalls :
        ~sinkLog[i].destroyed =>
            /\ sinkLog[i].by \in CallIds
            /\ sinkLog[i].sink = calls[sinkLog[i].by].sink

\* A delta of an earlier request went to the different sink of a later
\* generate call that the engine accepted.
C18_Witness ==
    \E i \in SinkCalls :
        LET e == sinkLog[i]
        IN  /\ ~e.destroyed
            /\ e.req < e.by
            /\ e.sink = calls[e.by].sink
            /\ e.sink # calls[e.req].sink
            /\ calls[e.by].chat = "true"

\* C19 as claimed: no stream callback on a live wrapper reaches the
\* invocation of line 110 with token_callback_ empty.
C19_NeverInvokesAbsentSink == ~(pc = "crashed_sink" /\ heap = "live")

\* A step in which the stream-back thread takes a fragment from the engine.
TakesFragment == queue # <<>> /\ queue' = Tail(queue)

\* C19 as amended: a stream callback that starts on a live wrapper while
\* token_callback_ is empty (no generate call yet, or the last one passed a
\* null callback) returns at once, with no sink invoked; no invocation that
\* is recorded is one of a null callback; and a generate call that stored a
\* null callback was submitted to chat_completion and returns 0 when the
\* engine accepts it.
C19_AbsentSinkAtEntryDiscards ==
    [][ /\ TakesFragment /\ heap = "live" /\ wrapper.token_callback_ = NullSink =>
              /\ cb' = Idle
              /\ done' = Append(done, Head(queue))
              /\ sinkLog' = sinkLog
              /\ pc' = pc
        /\ \A i \in 1..Len(sinkLog') : sinkLog'[i].sink # NullSink
        /\ \A r \in 1..Len(calls') :
              LET c == calls'[r]
              IN  c.stored /\ c.sink = NullSink /\ c.returned =>
                      /\ c.chat # "none"
                      /\ c.ret = 0 <=> c.chat = "true"
      ]_vars

\* A generate call with a null callback was accepted and has returned 0, and
\* the stream callback has discarded its first fragment, which carries a
\* delta.
C19_Witness ==
    /\ Running
    /\ Len(calls) = 1
    /\ calls[1].stored /\ calls[1].sink = NullSink
    /\ calls[1].returned /\ calls[1].ret = 0
    /\ done # <<>>
    /\ ContentDeltas(done[1].frag) # <<>>
    /\ sinkLog = <<>>

\* C20: a destructor run on a live wrapper requests exit_background_loop
\* exactly when is_initialized_ is set.  The wrapper that create_engine
\* deletes is uninitialised and no exit_background_loop is requested for it,
\* so that after a construction that failed past init_background_engine the
\* engine still holds the stream callback of the deleted wrapper and was
\* never asked to exit; the wrapper that destroy_engine deletes is
\* initialised and exit_background_loop is requested for it.
C20_ExitIffInitialized ==
    [][ /\ heap = "live" /\ heap' = "none" =>
              /\ ~wrapper.is_initialized_
              /\ engineLog' = engineLog
              /\ engine' = engine
        /\ heap' = "none" =>
              /\ engine'.exit_calls = 0
              /\ \A k \in 1..Len(engineLog') : engineLog'[k] # "exit_background_loop"
              /\ Len(engineLog') >= 2 => engine'.stream_callback
        /\ DestroyCall("ptr") /\ heap = "live" /\ pc' = "dtor_release" =>
              /\ wrapper.is_initialized_
              /\ engineLog' = Append(engineLog, "exit_background_loop")
              /\ engine'.exit_calls = engine.exit_calls + 1
      ]_vars

\* reload failed after init_background_engine had registered the stream
\* callback; create_engine has deleted the wrapper and returned null.
C20_Witness ==
    /\ heap = "none"
    /\ handle = "null"
    /\ pc = "idle"
    /\ engineLog = <<"init_background_engine", "reload">>
    /\ engine.stream_callback
    /\ engine.exit_calls = 0
    /\ ~engine.exiting

====
